---- MODULE Spec2Model ----
(***************************************************************************)
(* Model of src/main.py: one run of the stock dashboard script, from the   *)
(* sidebar inputs through the three provider GETs and the logo probe to    *)
(* the rendered page.                                                      *)
(*                                                                         *)
(* Numbers.  The prices of the model are integers and every derived value  *)
(* (returns, normalized values) is an exact rational <<n, d>> in lowest    *)
(* terms with d > 0.  A division by zero gives what numpy gives for it:    *)
(* <<1, 0>> (inf), <<-1, 0>> (-inf) or <<0, 0>> (nan).                      *)
(***************************************************************************)
EXTENDS Integers, Sequences, FiniteSets

\* ------------------------------------------------------------------ bounds
MaxClose == 2
MaxBars == 6
MaxFetchBars == 1
MaxTextLen == 1
MaxPick == 2

\* ------------------------------------------------------- program constants
POPULAR_STOCKS ==
    << <<"A","A","P","L">>, <<"M","S","F","T">>, <<"T","S","L","A">>,
       <<"A","M","Z","N">>, <<"G","O","O","G","L">>, <<"N","V","D","A">>,
       <<"M","E","T","A">> >>

BENCHMARK_LABELS == <<"S&P 500 (SPY)", "Nasdaq (QQQ)", "Dow Jones (DIA)">>

NoSymbol == <<>>

\* BENCHMARK_MAP.get(label): the benchmark's ticker, or None (NoSymbol here)
BENCHMARK_MAP_get(label) ==
    CASE label = "S&P 500 (SPY)"   -> <<"S","P","Y">>
      [] label = "Nasdaq (QQQ)"    -> <<"Q","Q","Q">>
      [] label = "Dow Jones (DIA)" -> <<"D","I","A">>
      [] OTHER                     -> NoSymbol

\* ----------------------------------------------------------- str.upper()
LowerCase == <<"a","b","c","d","e","f","g","h","i","j","k","l","m",
               "n","o","p","q","r","s","t","u","v","w","x","y","z">>
UpperCase == <<"A","B","C","D","E","F","G","H","I","J","K","L","M",
               "N","O","P","Q","R","S","T","U","V","W","X","Y","Z">>

UpperChar(c) ==
    IF \E i \in 1..Len(LowerCase) : LowerCase[i] = c
    THEN UpperCase[CHOOSE i \in 1..Len(LowerCase) : LowerCase[i] = c]
    ELSE c

Upper(text) == [i \in 1..Len(text) |-> UpperChar(text[i])]

\* the characters a user types in the model: a lower-case letter, an
\* upper-case letter
TypedChars == {"n", "V"}

SeqsUpTo(S, n) == UNION {[1..k -> S] : k \in 0..n}

TypedTexts == SeqsUpTo(TypedChars, MaxTextLen)

\* ------------------------------------------------------------- arithmetic
Abs(x) == IF x < 0 THEN -x ELSE x

Sign(x) == IF x > 0 THEN 1 ELSE IF x < 0 THEN -1 ELSE 0

RECURSIVE GCD(_, _)
GCD(a, b) == IF b = 0 THEN a ELSE GCD(b, a % b)

\* n / d as a reduced fraction; x / 0 is inf, -inf or nan
Rat(n, d) ==
    IF d = 0 THEN <<Sign(n), 0>>
    ELSE LET g == GCD(Abs(n), Abs(d))
             s == Sign(d)
         IN  <<(s * n) \div g, (s * d) \div g>>

NaN == <<0, 0>>
IsFinite(r) == r[2] # 0
IsNaN(r) == r = NaN

\* r * k for an integer k
RatScale(r, k) == Rat(r[1] * k, r[2])

\* a - b, with the floating-point rules for inf and nan
RatSub(a, b) ==
    IF IsNaN(a) \/ IsNaN(b) THEN NaN
    ELSE IF ~IsFinite(a) THEN (IF a = b THEN NaN ELSE a)
    ELSE IF ~IsFinite(b) THEN <<-b[1], 0>>
    ELSE Rat(a[1] * b[2] - b[1] * a[2], a[2] * b[2])

\* a <= b; every comparison with nan is false
RatLeq(a, b) ==
    IF IsNaN(a) \/ IsNaN(b) THEN FALSE
    ELSE IF ~IsFinite(a) THEN (a[1] = -1 \/ a = b)
    ELSE IF ~IsFinite(b) THEN b[1] = 1
    ELSE a[1] * b[2] <= b[1] * a[2]

\* ------------------------------------------------- JSON values and responses
\* A JSON body as the script reads it: None, or a dict with its top-level
\* keys, the closes of its "results" bars (price payloads) and the keys and
\* name of its "results" object (ticker-details payloads).
None == [type |-> "None", keys |-> {}, bars |-> <<>>, results_keys |-> {}, name |-> <<>>]

Dict(keys, bars, results_keys, name) ==
    [type |-> "dict", keys |-> keys, bars |-> bars, results_keys |-> results_keys, name |-> name]

Closes == 0..MaxClose

BarSeries(n) == SeqsUpTo(Closes, n)

\* price payloads: {}, one without "results", one per series of bars
PricePayloads(n) ==
    {Dict({}, <<>>, {}, <<>>), Dict({"status"}, <<>>, {}, <<>>)}
    \cup {Dict({"status", "results"}, b, {}, <<>>) : b \in BarSeries(n)}

AppleName == <<"A","p","p","l","e">>

\* ticker-details payloads: without "results", with a nameless "results", with a name
DetailsPayloads ==
    {Dict({"status"}, <<>>, {}, <<>>),
     Dict({"status", "results"}, <<>>, {}, <<>>),
     Dict({"status", "results"}, <<>>, {"name"}, AppleName)}

\* What one requests.get / requests.head can do: time out, fail to connect,
\* or answer with a status and a body that parses as JSON or does not.
Timeout == [kind |-> "Timeout", status |-> 0, json_ok |-> FALSE, body |-> None]
ConnectionError == [kind |-> "ConnectionError", status |-> 0, json_ok |-> FALSE, body |-> None]
Response(status, json_ok, body) ==
    [kind |-> "response", status |-> status, json_ok |-> json_ok, body |-> body]

ErrorStatuses == {404, 500}

FailedOutcomes ==
    {Timeout, ConnectionError, Response(200, FALSE, None)}
    \cup {Response(st, FALSE, None) : st \in ErrorStatuses}

GetOutcomes(bodies) == FailedOutcomes \cup {Response(200, TRUE, b) : b \in bodies}

HeadOutcomes == {Timeout, ConnectionError, Response(200, FALSE, None), Response(404, FALSE, None)}

\* ------------------------------------------------------- helper functions
\* calculate_percentage_return: ((current_val - past_val) / past_val) * 100
calculate_percentage_return(past_val, current_val) ==
    RatScale(Rat(current_val - past_val, past_val), 100)

\* variant of fetch_api_data whose except clause names ConnectionError alone
fetch_api_data_except_narrow(outcome) ==
    IF outcome.kind = "response"
    THEN [raised |-> FALSE,
          value |-> IF outcome.status = 200 /\ outcome.json_ok THEN outcome.body ELSE None]
    ELSE IF outcome.kind = "ConnectionError" THEN [raised |-> FALSE, value |-> None]
    ELSE [raised |-> TRUE, value |-> None]

\* The try/except of fetch_api_data over the outcome of its one requests.get:
\* RequestException (Timeout, ConnectionError, and the JSONDecodeError of
\* res.json() in requests >= 2.27) is caught; the result is [raised, value].
fetch_api_data(outcome) ==
    IF outcome.kind = "response"
    THEN IF outcome.status = 200
         THEN IF outcome.json_ok
              THEN [raised |-> FALSE, value |-> outcome.body]
              ELSE [raised |-> FALSE, value |-> None]
         ELSE [raised |-> FALSE, value |-> None]
    ELSE [raised |-> FALSE, value |-> None]

\* Python truthiness of a JSON value: None and {} are falsy
Truthy(d) == d.type = "dict" /\ d.keys # {}

\* `d and 'results' in d` (lines 74 and 107)
HasResults(d) == Truthy(d) /\ "results" \in d.keys

\* variant of line 54 that tests `symbol is None`, which no input satisfies
NotSymbol_IsNone(s) == FALSE

\* `not symbol` (line 54)
NotSymbol(s) == s = NoSymbol

\* details_raw_data.get('results', {}).get('name', symbol) if details_raw_data else symbol
CompanyName(details, sym) ==
    IF Truthy(details)
    THEN IF "results" \in details.keys /\ "name" \in details.results_keys
         THEN details.name
         ELSE sym
    ELSE sym

\* ------------------------------------------------------------- URLs
stock_url(sym) == <<"aggs", sym>>
info_url(sym) == <<"reference", sym>>
img_url(sym) == <<"logo", sym>>

Request(method, url) == [method |-> method, url |-> url]

\* ------------------------------------------------------------- metrics
Unset == <<>>

IntRat(x) == <<x, 1>>

\* main_df['Close'].iloc[-1]
LatestPrice(closes) == closes[Len(closes)]

\* ret_total (line 102)
RetTotal(closes) == calculate_percentage_return(closes[1], LatestPrice(closes))

\* variants of line 103 with another base index and with another length guard
RetWeek_iloc4(closes) ==
    IF Len(closes) >= 5
    THEN calculate_percentage_return(closes[Len(closes) - 3], LatestPrice(closes))
    ELSE RetTotal(closes)

RetWeek_guard4(closes) ==
    IF Len(closes) >= 4
    THEN calculate_percentage_return(closes[Len(closes) - 3], LatestPrice(closes))
    ELSE RetTotal(closes)

\* ret_week (line 103): iloc[-5] is the element at 1-based position Len - 4
RetWeek(closes) ==
    IF Len(closes) >= 5
    THEN calculate_percentage_return(closes[Len(closes) - 4], LatestPrice(closes))
    ELSE RetTotal(closes)

\* variant of lines 111-112 that rescales to the last close
Normalize_last(closes) ==
    [i \in 1..Len(closes) |-> RatScale(Rat(closes[i], closes[Len(closes)]), 100)]

\* (df['Close'] / df['Close'].iloc[0]) * 100 (lines 111-112), row by row
Normalize(closes) ==
    [i \in 1..Len(closes) |-> RatScale(Rat(closes[i], closes[1]), 100)]

\* the calls of calculate_percentage_return lines 102-103 make, as <<past, current>>
MetricCalls(closes) ==
    << <<closes[1], LatestPrice(closes)>> >>
    \o (IF Len(closes) >= 5
        THEN << <<closes[Len(closes) - 4], LatestPrice(closes)>> >>
        ELSE << >>)

\* pd.DataFrame(): no columns, no rows
EmptyFrame == [columns |-> {}, Close |-> <<>>, Normalized |-> <<>>]

\* ------------------------------------------------------------------ state
VARIABLES
    pc,                  \* position of the script
    symbol,              \* ticker, a sequence of characters
    benchmark_label,
    benchmark_symbol,
    stock_raw_data,
    details_raw_data,
    benchmark_raw_data,
    http_log,            \* every HTTP request issued, in order
    fetch_log,           \* every fetch_api_data call: [outcome, raised, value]
    page,                \* the elements rendered, in order
    company_name,
    main_df,
    bench_df,
    latest_price,
    ret_total,
    ret_week,
    outperform_val,
    pct_calls,           \* every calculate_percentage_return call: <<past, current>>
    fault                \* the uncaught exception that ended the run, if any

inputs == <<symbol, benchmark_label, benchmark_symbol>>
raw == <<stock_raw_data, details_raw_data, benchmark_raw_data>>
frames == <<main_df, bench_df>>
metrics == <<latest_price, ret_total, ret_week, outperform_val, pct_calls>>
vars == <<pc, inputs, raw, http_log, fetch_log, page, company_name, frames, metrics, fault>>

\* the state before the script's first widget is read
Init ==
    /\ pc = "sidebar"
    /\ symbol = NoSymbol
    /\ benchmark_label = "None"
    /\ benchmark_symbol = NoSymbol
    /\ stock_raw_data = None
    /\ details_raw_data = None
    /\ benchmark_raw_data = None
    /\ http_log = <<>>
    /\ fetch_log = <<>>
    /\ page = <<>>
    /\ company_name = NoSymbol
    /\ main_df = EmptyFrame
    /\ bench_df = EmptyFrame
    /\ latest_price = Unset
    /\ ret_total = Unset
    /\ ret_week = Unset
    /\ outperform_val = Unset
    /\ pct_calls = <<>>
    /\ fault = "none"

\* lines 40-52: the sidebar widgets
SidebarInputs ==
    /\ pc = "sidebar"
    /\ \/ \E i \in 1..MaxPick : symbol' = POPULAR_STOCKS[i]
       \/ \E text \in TypedTexts : symbol' = Upper(text)
    /\ \E label \in {"None"} \cup {BENCHMARK_LABELS[i] : i \in 1..Len(BENCHMARK_LABELS)} :
          /\ benchmark_label' = label
          /\ benchmark_symbol' = BENCHMARK_MAP_get(label)
    /\ pc' = "check_symbol"
    /\ UNCHANGED <<raw, http_log, fetch_log, page, company_name, frames, metrics, fault>>

\* lines 54-57: no symbol, so title, warning and st.stop()
AwaitSymbol ==
    /\ pc = "check_symbol"
    /\ NotSymbol(symbol)
    /\ page' = page \o <<"title", "warning">>
    /\ pc' = "awaiting_symbol"
    /\ UNCHANGED <<inputs, raw, http_log, fetch_log, company_name, frames, metrics, fault>>

\* one fetch_api_data call: one GET, its outcome, and the call's result
FetchCall(url, outcome) ==
    /\ http_log' = Append(http_log, Request("GET", url))
    /\ fetch_log' = Append(fetch_log,
                           [outcome |-> outcome,
                            raised |-> fetch_api_data(outcome).raised,
                            value |-> fetch_api_data(outcome).value])

\* where the script goes after a fetch_api_data call
AfterFetch(outcome, next) == IF fetch_api_data(outcome).raised THEN "fault" ELSE next

FaultAfterFetch(outcome) ==
    IF fetch_api_data(outcome).raised THEN "requests.exceptions" ELSE "none"

\* lines 60-65
FetchStock ==
    /\ pc = "check_symbol"
    /\ ~NotSymbol(symbol)
    /\ \E outcome \in GetOutcomes(PricePayloads(MaxFetchBars)) :
          /\ FetchCall(stock_url(symbol), outcome)
          /\ stock_raw_data' = fetch_api_data(outcome).value
          /\ pc' = AfterFetch(outcome, "fetch_info")
          /\ fault' = FaultAfterFetch(outcome)
    /\ UNCHANGED <<inputs, details_raw_data, benchmark_raw_data, page, company_name,
                   frames, metrics>>

\* line 66
FetchInfo ==
    /\ pc = "fetch_info"
    /\ \E outcome \in GetOutcomes(DetailsPayloads) :
          /\ FetchCall(info_url(symbol), outcome)
          /\ details_raw_data' = fetch_api_data(outcome).value
          /\ pc' = AfterFetch(outcome, "fetch_benchmark")
          /\ fault' = FaultAfterFetch(outcome)
    /\ UNCHANGED <<inputs, stock_raw_data, benchmark_raw_data, page, company_name,
                   frames, metrics>>

\* lines 68-71, a benchmark is selected
FetchBenchmark ==
    /\ pc = "fetch_benchmark"
    /\ benchmark_symbol # NoSymbol
    /\ \E outcome \in GetOutcomes(PricePayloads(MaxFetchBars)) :
          /\ FetchCall(stock_url(benchmark_symbol), outcome)
          /\ benchmark_raw_data' = fetch_api_data(outcome).value
          /\ pc' = AfterFetch(outcome, "guard")
          /\ fault' = FaultAfterFetch(outcome)
    /\ UNCHANGED <<inputs, stock_raw_data, details_raw_data, page, company_name,
                   frames, metrics>>

\* lines 68-69, no benchmark: benchmark_raw_data stays None
SkipBenchmark ==
    /\ pc = "fetch_benchmark"
    /\ benchmark_symbol = NoSymbol
    /\ benchmark_raw_data' = None
    /\ pc' = "guard"
    /\ UNCHANGED <<inputs, stock_raw_data, details_raw_data, http_log, fetch_log, page,
                   company_name, frames, metrics, fault>>

\* lines 74 and 169-170: the guard fails
RenderError ==
    /\ pc = "guard"
    /\ ~HasResults(stock_raw_data)
    /\ page' = page \o <<"error">>
    /\ pc' = "rendered_error"
    /\ UNCHANGED <<inputs, raw, http_log, fetch_log, company_name, frames, metrics, fault>>

\* variant of lines 83-89 whose except clause misses the timeout
LogoProbeResult_uncaught(outcome) ==
    IF outcome.kind = "response"
    THEN [raised |-> FALSE,
          element |-> IF outcome.status = 200 THEN "logo_image" ELSE "logo_placeholder"]
    ELSE IF outcome.kind = "Timeout" THEN [raised |-> TRUE, element |-> "none"]
    ELSE [raised |-> FALSE, element |-> "logo_placeholder"]

\* lines 83-89: the image on status 200, the placeholder on any other status
\* and on a RequestException
LogoProbeResult(outcome) ==
    IF outcome.kind = "response"
    THEN [raised |-> FALSE,
          element |-> IF outcome.status = 200 THEN "logo_image" ELSE "logo_placeholder"]
    ELSE [raised |-> FALSE, element |-> "logo_placeholder"]

\* lines 74-92: the guard passes; title, company name, logo probe, header
LogoProbe ==
    /\ pc = "guard"
    /\ HasResults(stock_raw_data)
    /\ company_name' = CompanyName(details_raw_data, symbol)
    /\ http_log' = Append(http_log, Request("HEAD", img_url(symbol)))
    /\ \E outcome \in HeadOutcomes :
          IF LogoProbeResult(outcome).raised
          THEN /\ page' = page \o <<"title">>
               /\ pc' = "fault"
               /\ fault' = "requests.exceptions"
          ELSE /\ page' = page \o <<"title", LogoProbeResult(outcome).element, "header">>
               /\ pc' = "transform"
               /\ fault' = fault
    /\ UNCHANGED <<inputs, raw, fetch_log, frames, metrics>>

PriceColumns == {"Close", "High", "Low", "Open", "Timestamp", "Volume"}

\* the page below the header: metric columns, the two tabs, links, raw table
\* (lines 119-168)
Sections(outperform) ==
    <<IF outperform # Unset THEN "metrics4" ELSE "metrics3",
      "candlestick",
      IF outperform # Unset THEN "comparison_chart" ELSE "comparison_prompt",
      "links",
      "raw_table">>

\* lines 95-168: frames, metrics, comparison and the rest of the page
ProcessData ==
    /\ pc = "transform"
    /\ LET closes == stock_raw_data.bars
           bcloses == benchmark_raw_data.bars
       IN  IF closes = <<>>
           THEN \* pd.DataFrame([]) has no columns: main_df['Timestamp'] raises (line 98)
                /\ main_df' = EmptyFrame
                /\ pc' = "fault"
                /\ fault' = "KeyError: 'Timestamp'"
                /\ UNCHANGED <<bench_df, metrics, page>>
           ELSE /\ latest_price' = IntRat(LatestPrice(closes))
                /\ ret_total' = RetTotal(closes)
                /\ ret_week' = RetWeek(closes)
                /\ IF HasResults(benchmark_raw_data)
                   THEN IF bcloses = <<>>
                        THEN \* bench_df['t'] raises (line 109)
                             /\ main_df' = [columns |-> PriceColumns \cup {"Date"},
                                            Close |-> closes, Normalized |-> <<>>]
                             /\ bench_df' = EmptyFrame
                             /\ pct_calls' = pct_calls \o MetricCalls(closes)
                             /\ outperform_val' = Unset
                             /\ pc' = "fault"
                             /\ fault' = "KeyError: 't'"
                             /\ page' = page
                        ELSE /\ main_df' = [columns |-> PriceColumns \cup {"Date", "Normalized"},
                                            Close |-> closes,
                                            Normalized |-> Normalize(closes)]
                             /\ bench_df' = [columns |-> {"c", "h", "l", "o", "t", "v", "Date",
                                                          "Normalized"},
                                             Close |-> bcloses,
                                             Normalized |-> Normalize(bcloses)]
                             /\ pct_calls' = pct_calls \o MetricCalls(closes)
                                                \o << <<bcloses[1], LatestPrice(bcloses)>> >>
                             /\ outperform_val' =
                                    RatSub(RetTotal(closes),
                                           calculate_percentage_return(bcloses[1],
                                                                       LatestPrice(bcloses)))
                             /\ pc' = "rendered_success"
                             /\ fault' = fault
                             /\ page' = page \o Sections(outperform_val')
                   ELSE /\ main_df' = [columns |-> PriceColumns \cup {"Date"},
                                       Close |-> closes, Normalized |-> <<>>]
                        /\ bench_df' = bench_df
                        /\ pct_calls' = pct_calls \o MetricCalls(closes)
                        /\ outperform_val' = Unset
                        /\ pc' = "rendered_success"
                        /\ fault' = fault
                        /\ page' = page \o Sections(outperform_val')
    /\ UNCHANGED <<inputs, raw, http_log, fetch_log, company_name>>

Next ==
    \/ SidebarInputs
    \/ AwaitSymbol
    \/ FetchStock
    \/ FetchInfo
    \/ FetchBenchmark
    \/ SkipBenchmark
    \/ RenderError
    \/ LogoProbe
    \/ ProcessData

Spec == Init /\ [][Next]_vars

\* ------------------------------------------- the data processing on its own
\* The series of the specification's worked examples, beside the bounded ones.
ExampleSeries == {<<10, 12, 15>>, <<150, 152, 149, 155, 160>>}
ExampleBenchmark == <<400, 402, 398, 405, 410>>

AAPL == POPULAR_STOCKS[1]

PricePayload(bars) == Dict({"status", "results"}, bars, {}, <<>>)

FetchEntry(outcome) ==
    [outcome |-> outcome,
     raised |-> fetch_api_data(outcome).raised,
     value |-> fetch_api_data(outcome).value]

\* The states in which ProcessData starts: AAPL was chosen, its price fetch
\* passed the guard with any series of up to MaxBars bars, the details fetch
\* failed, the benchmark is None or SPY with any outcome of its fetch, and the
\* logo probe found the image.
InitMetrics ==
    /\ pc = "transform"
    /\ symbol = AAPL
    /\ \E bars \in BarSeries(MaxBars) \cup ExampleSeries :
       \E label \in {"None", BENCHMARK_LABELS[1]} :
       \E bench \in IF label = "None"
                    THEN {Timeout}
                    ELSE {Response(404, FALSE, None)}
                         \cup {Response(200, TRUE, b) :
                                 b \in {Dict({"status"}, <<>>, {}, <<>>)}
                                       \cup {PricePayload(bb) :
                                               bb \in BarSeries(MaxFetchBars)
                                                      \cup {ExampleBenchmark}}} :
          /\ benchmark_label = label
          /\ benchmark_symbol = BENCHMARK_MAP_get(label)
          /\ stock_raw_data = PricePayload(bars)
          /\ details_raw_data = None
          /\ benchmark_raw_data = IF label = "None" THEN None ELSE fetch_api_data(bench).value
          /\ http_log =
                <<Request("GET", stock_url(AAPL)), Request("GET", info_url(AAPL))>>
                \o (IF label = "None" THEN <<>>
                    ELSE <<Request("GET", stock_url(BENCHMARK_MAP_get(label)))>>)
                \o <<Request("HEAD", img_url(AAPL))>>
          /\ fetch_log =
                <<FetchEntry(Response(200, TRUE, PricePayload(bars))),
                  FetchEntry(Response(404, FALSE, None))>>
                \o (IF label = "None" THEN <<>> ELSE <<FetchEntry(bench)>>)
    /\ page = <<"title", "logo_image", "header">>
    /\ company_name = AAPL
    /\ main_df = EmptyFrame
    /\ bench_df = EmptyFrame
    /\ latest_price = Unset
    /\ ret_total = Unset
    /\ ret_week = Unset
    /\ outperform_val = Unset
    /\ pct_calls = <<>>
    /\ fault = "none"

SpecMetrics == InitMetrics /\ [][ProcessData]_vars

\* ------------------------------------------------------------------ claims
Ended == pc \in {"rendered_success", "rendered_error", "fault"}

Shown(element) == \E i \in 1..Len(page) : page[i] = element

Issued(method) == {i \in 1..Len(http_log) : http_log[i].method = method}

EmptyResults(d) == HasResults(d) /\ d.bars = <<>>

Usable(d) == HasResults(d) /\ d.bars # <<>>

\* C1: a run whose primary fetch returned 200 with an empty "results" list
\* ends as a run without data does: the generic error is shown, no metric is
\* computed, no uncaught fault occurs.
C1_EmptyResultsIsFetchFailure ==
    (Ended /\ EmptyResults(stock_raw_data)) =>
        /\ pc = "rendered_error"
        /\ page = <<"error">>
        /\ ret_total = Unset /\ ret_week = Unset /\ latest_price = Unset
        /\ fault = "none"

\* C2: fetch_api_data never raises; it returns the parsed body only for a
\* status 200 and None for every other outcome of its GET, and each call
\* issues exactly one GET.
C2_FetchNeverRaises ==
    /\ \A i \in 1..Len(fetch_log) :
          LET call == fetch_log[i]
          IN  /\ ~call.raised
              /\ call.value # None =>
                    /\ call.outcome.kind = "response"
                    /\ call.outcome.status = 200
                    /\ call.value = call.outcome.body
              /\ (call.outcome.kind # "response" \/ call.outcome.status # 200) =>
                    call.value = None
    /\ Cardinality(Issued("GET")) = Len(fetch_log)
    /\ fault # "requests.exceptions"

C2_Witness ==
    /\ Len(fetch_log) = 3
    /\ fetch_log[1].outcome.kind = "Timeout"
    /\ fetch_log[2].outcome.kind = "response" /\ fetch_log[2].outcome.status = 404
    /\ fetch_log[3].outcome.status = 200 /\ fetch_log[3].value # None
    /\ Cardinality(Issued("GET")) = 3

\* C3: with an empty symbol the run stops in awaiting-symbol after the
\* prompt and issues no HTTP request, whatever the benchmark.
C3_EmptySymbolNoRequests ==
    /\ symbol = NoSymbol =>
          /\ http_log = <<>>
          /\ fetch_log = <<>>
          /\ pc \in {"sidebar", "check_symbol", "awaiting_symbol"}
    /\ pc = "awaiting_symbol" =>
          /\ symbol = NoSymbol
          /\ page = <<"title", "warning">>

C3_Witness ==
    /\ pc = "awaiting_symbol"
    /\ benchmark_symbol # NoSymbol
    /\ http_log = <<>>

\* C4 as stated: with at least 6 bars the week return is the return from the
\* 6th-from-last close to the last close.
C4_WeekFromSixthLast ==
    (ret_week # Unset /\ Len(stock_raw_data.bars) >= 6) =>
        LET c == stock_raw_data.bars
        IN  ret_week = calculate_percentage_return(c[Len(c) - 5], c[Len(c)])

\* C4 as amended: with at least 6 bars the week return is the return from the
\* 5th-from-last close to the last close.
C4_WeekFromFifthLast ==
    (ret_week # Unset /\ Len(stock_raw_data.bars) >= 6) =>
        LET c == stock_raw_data.bars
        IN  ret_week = RatScale(Rat(c[Len(c)] - c[Len(c) - 4], c[Len(c) - 4]), 100)

C4_Witness ==
    /\ pc = "rendered_success"
    /\ Len(stock_raw_data.bars) = 6
    /\ stock_raw_data.bars[1] = 1
    /\ stock_raw_data.bars[2] = 2
    /\ stock_raw_data.bars[6] = 1
    /\ ret_week = <<-50, 1>>

\* C5: with at most 5 bars the week return equals the total return; closes
\* [10, 12, 15] give 50 for both, closes [150, 152, 149, 155, 160] give 20/3.
C5_ShortSeriesWeekIsTotal ==
    /\ (ret_week # Unset /\ Len(stock_raw_data.bars) <= 5) =>
          LET c == stock_raw_data.bars
          IN  /\ ret_week = ret_total
              /\ ret_week = RatScale(Rat(c[Len(c)] - c[1], c[1]), 100)
    /\ (ret_week # Unset /\ stock_raw_data.bars = <<10, 12, 15>>) =>
          ret_week = <<50, 1>> /\ ret_total = <<50, 1>>
    /\ (ret_week # Unset /\ stock_raw_data.bars = <<150, 152, 149, 155, 160>>) =>
          ret_week = <<20, 3>> /\ ret_total = <<20, 3>>

C5_Witness ==
    /\ pc = "rendered_success"
    /\ Len(stock_raw_data.bars) = 5
    /\ stock_raw_data.bars[1] = 1
    /\ stock_raw_data.bars[2] = 2
    /\ stock_raw_data.bars[5] = 2
    /\ ret_week = <<100, 1>>
    /\ ret_total = <<100, 1>>

\* C6: calculate_percentage_return is never called with a base of zero, and
\* no return is computed from an empty series.
C6_NoZeroBaseNoEmptySeries ==
    /\ \A i \in 1..Len(pct_calls) : pct_calls[i][1] # 0
    /\ EmptyResults(stock_raw_data) => (ret_total = Unset /\ ret_week = Unset)
    /\ EmptyResults(benchmark_raw_data) => outperform_val = Unset

\* C7: a run with a symbol ends rendered-success or rendered-error, never
\* otherwise; rendered-success only with a non-empty primary "results" list,
\* rendered-error for every other primary outcome, whatever the other fetches
\* returned; the fetches are not repeated.
C7_SuccessOrErrorOnly ==
    /\ pc # "fault"
    /\ pc = "rendered_success" => Usable(stock_raw_data)
    /\ (Ended /\ ~Usable(stock_raw_data)) => pc = "rendered_error"
    /\ Len(fetch_log) <= 3

\* C8: with a usable primary series, an unusable benchmark (no data, no
\* "results" key, empty "results") still ends rendered-success with three
\* metrics and the comparison prompt; a usable benchmark gives outperformance
\* = primary total return - benchmark total return.
C8_BenchmarkDegradesGracefully ==
    (Ended /\ Usable(stock_raw_data)) =>
        IF Usable(benchmark_raw_data)
        THEN /\ pc = "rendered_success"
             /\ benchmark_symbol # NoSymbol
             /\ outperform_val =
                   RatSub(ret_total,
                          calculate_percentage_return(
                              benchmark_raw_data.bars[1],
                              benchmark_raw_data.bars[Len(benchmark_raw_data.bars)]))
        ELSE /\ pc = "rendered_success"
             /\ Shown("metrics3") /\ Shown("comparison_prompt")
             /\ ~Shown("comparison_chart")
             /\ outperform_val = Unset
             /\ "Normalized" \notin main_df.columns

Positive(closes) == \A i \in 1..Len(closes) : closes[i] > 0

NormalizedTo100(frame, bars) ==
    /\ frame.Close = bars
    /\ Len(frame.Normalized) = Len(bars)
    /\ Positive(bars) =>
          /\ frame.Normalized[1] = <<100, 1>>
          /\ \A i \in 1..Len(bars) :
                frame.Normalized[i] = Rat(bars[i] * 100, bars[1])
          /\ \A i, j \in 1..Len(bars) :
                (bars[i] <= bars[j]) <=> RatLeq(frame.Normalized[i], frame.Normalized[j])

\* C9: when the comparison is active, each series with positive closes is
\* normalized to 100 at its first bar, value by value close / first * 100,
\* in the provider's order and order-preserving.
C9_NormalizationTo100 ==
    "Normalized" \in main_df.columns =>
        /\ NormalizedTo100(main_df, stock_raw_data.bars)
        /\ NormalizedTo100(bench_df, benchmark_raw_data.bars)
        /\ "Normalized" \in bench_df.columns

C9_Witness ==
    /\ pc = "rendered_success"
    /\ stock_raw_data.bars = <<150, 152, 149, 155, 160>>
    /\ benchmark_raw_data.bars = ExampleBenchmark
    /\ main_df.Normalized[3] = <<298, 3>>
    /\ bench_df.Normalized[5] = <<205, 2>>

\* the requests a run with these inputs issues once the guard has passed
ExpectedRequests ==
    <<Request("GET", stock_url(symbol)), Request("GET", info_url(symbol))>>
    \o (IF benchmark_label # "None"
        THEN <<Request("GET", stock_url(benchmark_symbol))>>
        ELSE <<>>)
    \o <<Request("HEAD", img_url(symbol))>>

\* C10: the GETs go out in the order primary, info, benchmark (only if one is
\* selected), each once: 2 or 3 GETs in every run that passed the symbol
\* check, whatever the primary fetch returned; the logo HEAD goes out at most
\* once, only after the guard passed, and whatever it returns the run ends
\* as its data decides.
C10_RequestOrder ==
    /\ Len(http_log) <= Len(ExpectedRequests)
    /\ http_log = SubSeq(ExpectedRequests, 1, Len(http_log))
    /\ pc \in {"guard", "transform", "rendered_success", "rendered_error", "fault"} =>
          Cardinality(Issued("GET")) = (IF benchmark_label = "None" THEN 2 ELSE 3)
    /\ Issued("HEAD") # {} =>
          /\ HasResults(stock_raw_data)
          /\ pc \in {"transform", "rendered_success", "fault"}
          /\ fault # "requests.exceptions"
    /\ pc = "rendered_error" => Issued("HEAD") = {}
    /\ (Issued("HEAD") # {} /\ Ended) =>
          pc = (IF EmptyResults(stock_raw_data) \/ EmptyResults(benchmark_raw_data)
                THEN "fault" ELSE "rendered_success")

C10_Witness ==
    /\ pc = "rendered_success"
    /\ Len(http_log) = 4
    /\ Cardinality(Issued("GET")) = 3
    /\ Shown("logo_placeholder")

====
